---------------------------- MODULE Spec2Model ----------------------------
(***************************************************************************)
(* Model of openrasp::BackendResponse (agent/php5/agent/backend_response.cc)*)
(* the envelope around one backend HTTP response: construction (parse of   *)
(* the body), verify, the JSON-Pointer addressed accessors, erase_value,   *)
(* build_plugin_update_package and build_hook_white_map.                   *)
(*                                                                         *)
(* Text is a sequence of one-character strings.  The body text is a        *)
(* sequence of JSON lexemes, parsed by Parse as rapidjson parses it.       *)
(* A JSON value is a record tagged by t:                                   *)
(*   null, int (IsInt64), double (a number that is not an int64),          *)
(*   string (s), array (a: elements), object (m: members, in document      *)
(*   order, duplicate names allowed).                                      *)
(***************************************************************************)
EXTENDS Integers, Sequences, FiniteSets, TLC

VARIABLES
    response_code,    \* long response_code
    header_string,    \* std::string header_string
    response_string,  \* std::string response_string (JSON lexemes)
    parse_error,      \* bool parse_error
    error_msg,        \* std::string error_msg
    document,         \* rapidjson::Document document
    last,             \* the last call: operation, argument, return value, out value
    errors,           \* the openrasp_error reports issued by the last call
    crashed,          \* the process died (assertion failure or fault)
    erased            \* history: what the most recent erase_value call removed

envelope == <<response_code, header_string, response_string, parse_error,
              error_msg, document>>
vars == <<response_code, header_string, response_string, parse_error,
          error_msg, document, last, errors, crashed, erased>>

------------------------------------------------------------------------------
(* JSON values *)

JNull == [t |-> "null"]
JInt(n) == [t |-> "int", n |-> n]
JDbl == [t |-> "double"]
JStr(s) == [t |-> "string", s |-> s]
JArr(a) == [t |-> "array", a |-> a]
JObj(m) == [t |-> "object", m |-> m]
Mem(name, value) == [name |-> name, value |-> value]

IsInt64(v) == v.t = "int"
IsString(v) == v.t = "string"
IsObject(v) == v.t = "object"
IsArray(v) == v.t = "array"

\* GenericValue::FindMember: the position of the first member called name, 0 if none
RECURSIVE FindFrom(_, _, _)
FindFrom(m, name, i) ==
    IF i > Len(m) THEN 0
    ELSE IF m[i].name = name THEN i
    ELSE FindFrom(m, name, i + 1)

FindMember(m, name) == FindFrom(m, name, 1)

\* the sequence s without its i-th element (EraseMember / Erase keep the order)
RemoveAt(s, i) == SubSeq(s, 1, i - 1) \o SubSeq(s, i + 1, Len(s))

------------------------------------------------------------------------------
(* JSON text: lexemes, rapidjson::Writer and Document::Parse *)

LBrace == [k |-> "{"]
RBrace == [k |-> "}"]
LBracket == [k |-> "["]
RBracket == [k |-> "]"]
Colon == [k |-> ":"]
Comma == [k |-> ","]
LStr(s) == [k |-> "str", s |-> s]
LInt(n) == [k |-> "int", n |-> n]
LDbl == [k |-> "dbl"]
LNull == [k |-> "null"]

RECURSIVE Write(_), WriteElems(_, _), WriteMembers(_, _)
\* Value::Accept(Writer): the JSON text of a value
Write(v) ==
    CASE v.t = "null" -> <<LNull>>
      [] v.t = "int" -> <<LInt(v.n)>>
      [] v.t = "double" -> <<LDbl>>
      [] v.t = "string" -> <<LStr(v.s)>>
      [] v.t = "array" -> <<LBracket>> \o WriteElems(v.a, 1) \o <<RBracket>>
      [] v.t = "object" -> <<LBrace>> \o WriteMembers(v.m, 1) \o <<RBrace>>

WriteElems(a, i) ==
    IF i > Len(a) THEN <<>>
    ELSE (IF i > 1 THEN <<Comma>> ELSE <<>>) \o Write(a[i]) \o WriteElems(a, i + 1)

WriteMembers(m, i) ==
    IF i > Len(m) THEN <<>>
    ELSE (IF i > 1 THEN <<Comma>> ELSE <<>>) \o <<LStr(m[i].name), Colon>>
         \o Write(m[i].value) \o WriteMembers(m, i + 1)

PFail(err) == [ok |-> FALSE, v |-> JNull, next |-> 0, err |-> err]
POk(v, next) == [ok |-> TRUE, v |-> v, next |-> next, err |-> ""]

Kind(toks, i) == IF i > Len(toks) THEN "eof" ELSE toks[i].k

RECURSIVE ParseValue(_, _), ParseElems(_, _, _), ParseMembers(_, _, _)
\* GenericReader::ParseValue
ParseValue(toks, i) ==
    LET k == Kind(toks, i) IN
    CASE k = "str" -> POk(JStr(toks[i].s), i + 1)
      [] k = "int" -> POk(JInt(toks[i].n), i + 1)
      [] k = "dbl" -> POk(JDbl, i + 1)
      [] k = "null" -> POk(JNull, i + 1)
      [] k = "[" -> IF Kind(toks, i + 1) = "]" THEN POk(JArr(<<>>), i + 2)
                    ELSE ParseElems(toks, i + 1, <<>>)
      [] k = "{" -> IF Kind(toks, i + 1) = "}" THEN POk(JObj(<<>>), i + 2)
                    ELSE ParseMembers(toks, i + 1, <<>>)
      [] OTHER -> PFail("Invalid value.")

\* GenericReader::ParseArray, after the opening bracket of a non-empty array
ParseElems(toks, i, acc) ==
    LET r == ParseValue(toks, i) IN
    IF ~r.ok THEN r
    ELSE IF Kind(toks, r.next) = "," THEN ParseElems(toks, r.next + 1, Append(acc, r.v))
    ELSE IF Kind(toks, r.next) = "]" THEN POk(JArr(Append(acc, r.v)), r.next + 1)
    ELSE PFail("Missing a comma or ']' after an array element.")

\* GenericReader::ParseObject, after the opening brace of a non-empty object
ParseMembers(toks, i, acc) ==
    IF Kind(toks, i) # "str" THEN PFail("Missing a name for object member.")
    ELSE IF Kind(toks, i + 1) # ":"
    THEN PFail("Missing a colon after a name of object member.")
    ELSE LET r == ParseValue(toks, i + 2) IN
         IF ~r.ok THEN r
         ELSE IF Kind(toks, r.next) = ","
         THEN ParseMembers(toks, r.next + 1, Append(acc, Mem(toks[i].s, r.v)))
         ELSE IF Kind(toks, r.next) = "}"
         THEN POk(JObj(Append(acc, Mem(toks[i].s, r.v))), r.next + 1)
         ELSE PFail("Missing a comma or '}' after an object member.")

\* Document::Parse: the document stays JNull when the text does not parse
Parse(toks) ==
    IF Len(toks) = 0 THEN PFail("The document is empty.")
    ELSE LET r == ParseValue(toks, 1) IN
         IF ~r.ok THEN r
         ELSE IF r.next <= Len(toks)
         THEN PFail("The document root must not be followed by other values.")
         ELSE r

------------------------------------------------------------------------------
(* rapidjson::Pointer (RFC 6901) *)

Digits == {"0", "1", "2", "3", "4", "5", "6", "7", "8", "9"}

DigitVal(c) ==
    CASE c = "0" -> 0 [] c = "1" -> 1 [] c = "2" -> 2 [] c = "3" -> 3 [] c = "4" -> 4
      [] c = "5" -> 5 [] c = "6" -> 6 [] c = "7" -> 7 [] c = "8" -> 8 [] c = "9" -> 9

RECURSIVE Decimal(_, _, _)
Decimal(s, i, n) == IF i > Len(s) THEN n ELSE Decimal(s, i + 1, n * 10 + DigitVal(s[i]))

\* a token's array index: its name read as a number, -1 (kPointerInvalidIndex)
\* unless the name is "0" or digits without a leading zero
TokenIndex(name) ==
    IF /\ Len(name) > 0
       /\ \A i \in 1..Len(name) : name[i] \in Digits
       /\ ~(Len(name) > 1 /\ name[1] = "0")
    THEN Decimal(name, 1, 0)
    ELSE -1

Token(name) == [name |-> name, index |-> TokenIndex(name)]

RECURSIVE ParseToken(_, _, _)
\* one reference token, from position i (after its '/') to the next '/' or the end:
\* "~0" reads as '~', "~1" as '/', any other use of '~' is an invalid escape
ParseToken(src, i, name) ==
    IF i > Len(src) \/ src[i] = "/" THEN [ok |-> TRUE, name |-> name, next |-> i]
    ELSE IF src[i] = "~"
    THEN IF i + 1 <= Len(src) /\ src[i + 1] = "0" THEN ParseToken(src, i + 2, Append(name, "~"))
         ELSE IF i + 1 <= Len(src) /\ src[i + 1] = "1" THEN ParseToken(src, i + 2, Append(name, "/"))
         ELSE [ok |-> FALSE, name |-> <<>>, next |-> i]
    ELSE ParseToken(src, i + 1, Append(name, src[i]))

RECURSIVE ParseTokens(_, _, _)
ParseTokens(src, i, acc) ==
    IF i > Len(src) THEN [valid |-> TRUE, tokens |-> acc]
    ELSE LET r == ParseToken(src, i + 1, <<>>) IN
         IF ~r.ok THEN [valid |-> FALSE, tokens |-> <<>>]
         ELSE ParseTokens(src, r.next, Append(acc, Token(r.name)))

\* GenericPointer(const Ch* source): a parse error leaves no tokens
Pointer(src) ==
    IF Len(src) > 0 /\ src[1] # "/" THEN [valid |-> FALSE, tokens |-> <<>>]
    ELSE ParseTokens(src, 1, <<>>)

NotFound == [found |-> FALSE, v |-> JNull]
Found(v) == [found |-> TRUE, v |-> v]

RECURSIVE Get(_, _, _)
\* GenericPointer::Get: walks the tokens from the i-th on; a null pointer is NotFound
Get(v, tokens, i) ==
    IF i > Len(tokens) THEN Found(v)
    ELSE IF v.t = "object"
    THEN LET j == FindMember(v.m, tokens[i].name) IN
         IF j = 0 THEN NotFound ELSE Get(v.m[j].value, tokens, i + 1)
    ELSE IF v.t = "array"
    THEN IF tokens[i].index = -1 \/ tokens[i].index >= Len(v.a) THEN NotFound
         ELSE Get(v.a[tokens[i].index + 1], tokens, i + 1)
    ELSE NotFound

RECURSIVE Erase(_, _, _)
\* GenericPointer::Erase: [ret, v] the return value and the value after the call
Erase(v, tokens, i) ==
    LET same == [ret |-> FALSE, v |-> v] IN
    IF Len(tokens) = 0 THEN same
    ELSE IF v.t = "object"
    THEN LET j == FindMember(v.m, tokens[i].name) IN
         IF j = 0 THEN same
         ELSE IF i = Len(tokens) THEN [ret |-> TRUE, v |-> JObj(RemoveAt(v.m, j))]
         ELSE LET r == Erase(v.m[j].value, tokens, i + 1) IN
              [ret |-> r.ret, v |-> JObj([v.m EXCEPT ![j].value = r.v])]
    ELSE IF v.t = "array"
    THEN IF tokens[i].index = -1 \/ tokens[i].index >= Len(v.a) THEN same
         ELSE IF i = Len(tokens)
         THEN [ret |-> TRUE, v |-> JArr(RemoveAt(v.a, tokens[i].index + 1))]
         ELSE LET r == Erase(v.a[tokens[i].index + 1], tokens, i + 1) IN
              [ret |-> r.ret, v |-> JArr([v.a EXCEPT ![tokens[i].index + 1] = r.v])]
    ELSE same

------------------------------------------------------------------------------
(* Results of a call.  ret is the value returned, out the value written to *)
(* the reference parameter (Unset when the call leaves it alone), errors   *)
(* the openrasp_error reports.  Crash is the call that never returns: a    *)
(* failed RAPIDJSON_ASSERT or a fault.                                     *)

Unset == [t |-> "unset"]
Bool(b) == [t |-> "bool", b |-> b]
Long(n) == [t |-> "long", n |-> n]
Text(x) == [t |-> "text", x |-> x]
Vector(a) == [t |-> "vector", a |-> a]
Map(f) == [t |-> "map", f |-> f]
Nullptr == [t |-> "nullptr"]
PluginUpdatePackage(plugin, version, md5) ==
    [t |-> "package", plugin |-> plugin, version |-> version, md5 |-> md5]

Return(ret, out) == [crash |-> FALSE, ret |-> ret, out |-> out, errors |-> <<>>]
Report(ret, report) == [crash |-> FALSE, ret |-> ret, out |-> Unset, errors |-> <<report>>]
Crash == [crash |-> TRUE, ret |-> Unset, out |-> Unset, errors |-> <<>>]

\* strings a GetString() of a value that is no string can produce when it returns
GarbageText == {<<>>, <<"?">>}

\* rapidjson::GetValueByPointer(document, pointer).  Pointer::Get asserts
\* IsValid(); with the assertion compiled out an invalid pointer has no tokens
\* and Get returns the root.
GetValueByPointer(doc, key) ==
    LET p == Pointer(key) IN
    IF p.valid THEN {[crash |-> FALSE, at |-> Get(doc, p.tokens, 1)]}
    ELSE {[crash |-> TRUE, at |-> NotFound], [crash |-> FALSE, at |-> Found(doc)]}

------------------------------------------------------------------------------
(* utils/digest.h and utils/string.h *)

Code(c) ==
    CASE c = "a" -> 97 [] c = "b" -> 98 [] c = "c" -> 99 [] OTHER -> 63

HexDigit(n) ==
    CASE n = 0 -> "0" [] n = 1 -> "1" [] n = 2 -> "2" [] n = 3 -> "3" [] n = 4 -> "4"
      [] n = 5 -> "5" [] n = 6 -> "6" [] n = 7 -> "7" [] n = 8 -> "8" [] n = 9 -> "9"
      [] n = 10 -> "a" [] n = 11 -> "b" [] n = 12 -> "c" [] n = 13 -> "d"
      [] n = 14 -> "e" [] n = 15 -> "f"

RECURSIVE Mix(_, _, _)
Mix(s, i, h) == IF i > Len(s) THEN h ELSE Mix(s, i + 1, (h * 33 + Code(s[i])) % 256)

\* md5sum(data, len): a content digest as lowercase hex text (one byte of digest)
md5sum(s) == LET h == Mix(s, 1, 7) IN <<HexDigit(h \div 16), HexDigit(h % 16)>>

IsPrefixAt(s, from, i) ==
    /\ i + Len(from) - 1 <= Len(s)
    /\ SubSeq(s, i, i + Len(from) - 1) = from

RECURSIVE ReplaceFrom(_, _, _, _)
ReplaceFrom(s, from, to, i) ==
    IF i > Len(s) THEN <<>>
    ELSE IF IsPrefixAt(s, from, i) THEN to \o ReplaceFrom(s, from, to, i + Len(from))
    ELSE <<s[i]>> \o ReplaceFrom(s, from, to, i + 1)

\* string_replace(str, from, to): every occurrence of from becomes to
string_replace(s, from, to) == ReplaceFrom(s, from, to, 1)

------------------------------------------------------------------------------
(* BackendResponse *)

S_status == <<"s", "t", "a", "t", "u", "s">>
S_description == <<"d", "e", "s", "c", "r", "i", "p", "t", "i", "o", "n">>
S_data == <<"d", "a", "t", "a">>
S_plugin == <<"p", "l", "u", "g", "i", "n">>
S_md5 == <<"m", "d", "5">>
S_version == <<"v", "e", "r", "s", "i", "o", "n">>

P_status == <<"/">> \o S_status
P_description == <<"/">> \o S_description
P_plugin_plugin == <<"/">> \o S_data \o <<"/">> \o S_plugin \o <<"/">> \o S_plugin
P_plugin_md5 == <<"/">> \o S_data \o <<"/">> \o S_plugin \o <<"/">> \o S_md5
P_plugin_version == <<"/">> \o S_data \o <<"/">> \o S_plugin \o <<"/">> \o S_version

\* BackendResponse::BackendResponse: the members after construction.  The
\* constructor writes parse_error only when the parse fails; the flag is false
\* otherwise (has_error is true iff the body did not parse).
New(code, header, body) ==
    LET r == Parse(body) IN
    [response_code |-> code, header_string |-> header, response_string |-> body,
     document |-> r.v,
     error_msg |-> IF r.ok THEN "" ELSE r.err,
     parse_error |-> ~r.ok]

has_error(perr) == perr

get_http_code(code) == code

http_code_ok(code) == code >= 200 /\ code < 300

fetch_int64(doc, key) ==
    { IF r.crash THEN Crash
      ELSE IF r.at.found /\ IsInt64(r.at.v) THEN Return(Bool(TRUE), r.at.v)
      ELSE Return(Bool(FALSE), Unset) : r \in GetValueByPointer(doc, key) }

fetch_string(doc, key) ==
    { IF r.crash THEN Crash
      ELSE IF r.at.found /\ IsString(r.at.v) THEN Return(Bool(TRUE), r.at.v)
      ELSE Return(Bool(FALSE), Unset) : r \in GetValueByPointer(doc, key) }

stringify_object(doc, key) ==
    { IF r.crash THEN Crash
      ELSE IF r.at.found /\ IsObject(r.at.v) THEN Return(Bool(TRUE), Text(Write(r.at.v)))
      ELSE Return(Bool(TRUE), Unset) : r \in GetValueByPointer(doc, key) }

fetch_status(doc) == fetch_int64(doc, P_status)

fetch_description(doc) == fetch_string(doc, P_description)

\* erase_value that reports a removal and removes nothing
erase_value_keep(doc, key) ==
    LET p == Pointer(key)
        r == Erase(doc, p.tokens, 1)
    IN  {[crash |-> FALSE, ret |-> Bool(r.ret), doc |-> doc]}

\* erase_value: [crash, ret, doc] the return value and the document after the call
erase_value(doc, key) ==
    LET p == Pointer(key)
        r == Erase(doc, p.tokens, 1)
    IN  IF p.valid THEN {[crash |-> FALSE, ret |-> Bool(r.ret), doc |-> r.v]}
        ELSE {[crash |-> TRUE, ret |-> Unset, doc |-> doc],
              [crash |-> FALSE, ret |-> Bool(FALSE), doc |-> doc]}

ParseFailure(error_code, msg) ==
    [level |-> "E_WARNING", code |-> error_code, kind |-> "parse",
     status |-> 0, text |-> <<msg>>]
TransportFailure(error_code, code) ==
    [level |-> "E_WARNING", code |-> error_code, kind |-> "http",
     status |-> code, text |-> <<>>]
ApiFailure(error_code, status, description) ==
    [level |-> "E_WARNING", code |-> error_code, kind |-> "api",
     status |-> status, text |-> description]

\* verify with the HTTP status tested before the parse error
verify_http_first(code, perr, msg, doc, error_code) ==
    IF ~http_code_ok(code)
    THEN {Report(Bool(FALSE), TransportFailure(error_code, get_http_code(code)))}
    ELSE IF has_error(perr) THEN {Report(Bool(FALSE), ParseFailure(error_code, msg))}
    ELSE {Return(Bool(TRUE), Unset)}

verify(code, perr, msg, doc, error_code) ==
    IF has_error(perr) THEN {Report(Bool(FALSE), ParseFailure(error_code, msg))}
    ELSE IF ~http_code_ok(code)
    THEN {Report(Bool(FALSE), TransportFailure(error_code, get_http_code(code)))}
    ELSE { IF s.crash \/ d.crash THEN Crash
           ELSE LET has_status == s.ret.b
                    has_description == d.ret.b
                IN  IF has_status /\ has_description /\ 0 # s.out.n
                    THEN Report(Bool(FALSE), ApiFailure(error_code, s.out.n, d.out.s))
                    ELSE Return(Bool(TRUE), Unset)
           : s \in fetch_status(doc), d \in fetch_description(doc) }

\* build_plugin_update_package without the comparison of the digests
build_plugin_update_package_unchecked(doc) ==
    { IF p.crash \/ m.crash \/ v.crash THEN Crash
      ELSE IF p.ret.b /\ m.ret.b /\ v.ret.b
      THEN Return(PluginUpdatePackage(p.out.s, v.out.s, m.out.s), Unset)
      ELSE Return(Nullptr, Unset)
      : p \in fetch_string(doc, P_plugin_plugin),
        m \in fetch_string(doc, P_plugin_md5),
        v \in fetch_string(doc, P_plugin_version) }

build_plugin_update_package(doc) ==
    { IF p.crash \/ m.crash \/ v.crash THEN Crash
      ELSE IF p.ret.b /\ m.ret.b
      THEN LET cal_md5 == md5sum(p.out.s) IN
           IF cal_md5 # m.out.s THEN Return(Nullptr, Unset)
           ELSE IF ~v.ret.b THEN Return(Nullptr, Unset)
           ELSE Return(PluginUpdatePackage(p.out.s, v.out.s, m.out.s), Unset)
      ELSE Return(Nullptr, Unset)
      : p \in fetch_string(doc, P_plugin_plugin),
        m \in fetch_string(doc, P_plugin_md5),
        v \in fetch_string(doc, P_plugin_version) }

fetch_object_keys(doc, key) ==
    { IF r.crash THEN Crash
      ELSE IF r.at.found /\ IsObject(r.at.v)
      THEN Return(Vector([i \in 1..Len(r.at.v.m) |-> r.at.v.m[i].name]), Unset)
      ELSE Return(Vector(<<>>), Unset) : r \in GetValueByPointer(doc, key) }

\* v.GetString() of every element: of an element that is no string it asserts,
\* or reads whatever the value's storage holds
StringsOf(a) ==
    LET bad == {i \in 1..Len(a) : ~IsString(a[i])} IN
    IF bad = {} THEN {Return(Vector([i \in 1..Len(a) |-> a[i].s]), Unset)}
    ELSE {Crash} \cup
         { Return(Vector([i \in 1..Len(a) |-> IF i \in bad THEN g[i] ELSE a[i].s]), Unset)
           : g \in [bad -> GarbageText] }

fetch_string_array(doc, key) ==
    UNION { IF r.crash THEN {Crash}
            ELSE IF r.at.found /\ IsArray(r.at.v) THEN StringsOf(r.at.v.a)
            ELSE {Return(Vector(<<>>), Unset)} : r \in GetValueByPointer(doc, key) }

\* std::map::insert: an existing key keeps its value
Insert(f, k, v) == IF k \in DOMAIN f THEN f ELSE [x \in DOMAIN f \cup {k} |-> IF x = k THEN v ELSE f[x]]

\* the path build_hook_white_map fetches the array of member key_item at
ChildPath(key, key_item) ==
    LET json_ptr == string_replace(key_item, <<"/">>, <<"~", "1">>) IN
    key \o <<"/">> \o json_ptr

RECURSIVE HookMapFrom(_, _, _, _, _)
\* the loop of build_hook_white_map from the i-th key on
HookMapFrom(doc, key, keys, i, f) ==
    IF i > Len(keys) THEN {Return(Map(f), Unset)}
    ELSE LET key_item == keys[i] IN
         UNION { IF white_types.crash THEN {Crash}
                 ELSE HookMapFrom(doc, key, keys, i + 1,
                                  Insert(f, key_item, white_types.ret.a))
                 : white_types \in fetch_string_array(doc, ChildPath(key, key_item)) }

build_hook_white_map(doc, key) ==
    UNION { IF keys.crash THEN {Crash}
            ELSE HookMapFrom(doc, key, keys.ret.a, 1, <<>>)
            : keys \in fetch_object_keys(doc, key) }

------------------------------------------------------------------------------
(* Bounds of the model, and the inputs drawn within them.  Text holds no   *)
(* NUL character and pointers passed by callers are well-formed.           *)

\* API status values are 0..MaxStatus
MaxStatus == 1
\* plugin sources are the texts over {a, b} of at most this length
MaxSrcLen == 1
\* members of the hook object
MaxHooks == 2
\* elements of the arrays of the erase documents
MaxElems == 2

S_hw == <<"h", "w">>
S_l == <<"l">>
S_k == <<"k">>
P_root == <<>>
P_hw == <<"/">> \o S_hw
P_hw_a == P_hw \o <<"/", "a">>
P_l == <<"/">> \o S_l
P_l_0 == P_l \o <<"/", "0">>
P_l_0_k == P_l_0 \o <<"/">> \o S_k
P_k == <<"/">> \o S_k

\* the pointers callers pass
Keys == {P_root, P_status, P_description, P_plugin_plugin, P_hw, P_hw_a,
         P_l, P_l_0, P_l_0_k, P_k}

\* the openrasp_error_code a caller passes to verify
ErrorCodes == {"PLUGIN_UPDATE_ERROR", "HEARTBEAT_ERROR"}

Codes == {0, 199, 200, 299, 300, 404}
Header == <<"H">>

TextsUpTo(alphabet, n) == UNION {[1..k -> alphabet] : k \in 0..n}

\* an object of the members that are present (absent ones are left out)
Absent == [t |-> "absent"]
RECURSIVE Present(_, _)
Present(m, i) ==
    IF i > Len(m) THEN <<>>
    ELSE (IF m[i].value = Absent THEN <<>> ELSE <<m[i]>>) \o Present(m, i + 1)
ObjOf(m) == JObj(Present(m, 1))

Malformed ==
    {<<>>, <<LBrace>>, <<LBrace, LStr(S_status), LInt(1), RBrace>>,
     <<LBrace, LStr(S_status), Colon, LInt(1)>>, <<LBracket, LInt(1), Comma, RBracket>>,
     <<LInt(1), LInt(1)>>, <<LBrace, LInt(1), Colon, LInt(1), RBrace>>,
     <<LBracket, LInt(1), LInt(1), RBracket>>,
     <<LBrace, LStr(S_status), Colon, LInt(1), LStr(S_status), RBrace>>, <<RBrace>>}

StatusValues == {Absent, JDbl, JStr(<<"1">>), JNull} \cup {JInt(n) : n \in 0..MaxStatus}
DescriptionValues == {Absent, JStr(<<>>), JStr(<<"a">>), JInt(1)}

VerifyDocs ==
    {ObjOf(<<Mem(S_status, s), Mem(S_description, d)>>)
        : s \in StatusValues, d \in DescriptionValues}
    \cup {JArr(<<JInt(1)>>), JInt(1), JStr(<<"a">>), JNull}

Sources == TextsUpTo({"a", "b"}, MaxSrcLen)
PluginValues == {Absent, JInt(1)} \cup {JStr(s) : s \in Sources}
Md5Values == {Absent, JInt(1), JStr(<<"0", "0">>), JStr(<<"A", "8">>)}
             \cup {JStr(md5sum(s)) : s \in Sources}
VersionValues == {Absent, JInt(1), JStr(<<>>), JStr(<<"1">>)}

PluginDocs ==
    {ObjOf(<<Mem(S_data, ObjOf(<<Mem(S_plugin,
            ObjOf(<<Mem(S_plugin, p), Mem(S_md5, m), Mem(S_version, v)>>))>>))>>)
        : p \in PluginValues, m \in Md5Values, v \in VersionValues}
    \cup {JObj(<<>>), JObj(<<Mem(S_data, JInt(1))>>),
          JObj(<<Mem(S_data, JObj(<<Mem(S_plugin, JStr(<<"a">>))>>))>>)}

HookNames == <<<<"a">>, <<"a", "/", "b">>, <<"a", "~", "b">>, <<"a", "~", "1", "b">>>>
HookValues == {JArr(<<>>), JArr(<<JStr(<<"x">>), JStr(<<"y">>)>>), JArr(<<JInt(5)>>),
               JInt(5)}
\* member names in the order of HookNames, a name possibly twice
HookMembers ==
    UNION {{[i \in 1..k |-> Mem(HookNames[n[i]], v[i])]
              : n \in {f \in [1..k -> 1..Len(HookNames)] :
                          \A i \in 1..k - 1 : f[i] <= f[i + 1]},
                v \in [1..k -> HookValues]}
           : k \in 0..MaxHooks}
HookDocs ==
    {JObj(<<Mem(S_hw, JObj(m))>>) : m \in HookMembers}
    \cup {JObj(<<>>), JObj(<<Mem(S_hw, JArr(<<>>))>>), JArr(<<>>)}

Ints(n) == [i \in 1..n |-> JInt(i)]
Strs(n) == [i \in 1..n |-> JStr(<<HexDigit(i)>>)]
EraseDocs ==
    {JObj(<<Mem(S_l, JArr(Ints(MaxElems))), Mem(S_k, JInt(1))>>),
     JObj(<<Mem(S_l, JArr(Strs(MaxElems))), Mem(S_k, JStr(<<"a">>))>>),
     JObj(<<Mem(S_l, JArr([i \in 1..MaxElems |-> JObj(<<Mem(S_k, JInt(i))>>)]))>>),
     JObj(<<Mem(S_k, JInt(1)), Mem(S_k, JInt(2))>>),
     JObj(<<Mem(S_k, JStr(<<"a">>)), Mem(S_k, JInt(2)), Mem(S_k, JStr(<<"b">>))>>),
     JObj(<<Mem(S_l, JObj(<<Mem(<<"0">>, JInt(1)), Mem(<<"1">>, JInt(2))>>))>>)}

CoreDocs ==
    {JObj(<<Mem(S_status, JInt(1)), Mem(S_description, JStr(<<"a">>))>>),
     JObj(<<Mem(S_data, JObj(<<Mem(S_plugin, JObj(<<Mem(S_plugin, JStr(<<"a">>)),
                Mem(S_md5, JStr(md5sum(<<"a">>))), Mem(S_version, JStr(<<"1">>))>>))>>))>>),
     JObj(<<Mem(S_hw, JObj(<<Mem(<<"a">>, JArr(<<JStr(<<"x">>), JInt(5)>>)),
                             Mem(<<"a", "/", "b">>, JArr(<<JStr(<<"y">>)>>))>>))>>),
     JStr(<<"a">>), JInt(1)}

------------------------------------------------------------------------------
(* The state machine *)

NoCall == [op |-> "new", key |-> <<>>, ret |-> Unset, out |-> Unset]
NoErase == [any |-> FALSE, key |-> <<>>, removed |-> "none"]

InitWith(codes, bodies) ==
    \E code \in codes, body \in bodies :
        LET e == New(code, Header, body) IN
        /\ response_code = e.response_code
        /\ header_string = e.header_string
        /\ response_string = e.response_string
        /\ parse_error = e.parse_error
        /\ error_msg = e.error_msg
        /\ document = e.document
        /\ last = NoCall
        /\ errors = <<>>
        /\ crashed = FALSE
        /\ erased = NoErase

\* a call returns (or never does): what the caller sees of it
Call(op, key, o) ==
    /\ ~crashed
    /\ last' = [op |-> op, key |-> key, ret |-> o.ret, out |-> o.out]
    /\ errors' = o.errors
    /\ crashed' = o.crash

HasError ==
    /\ Call("has_error", <<>>, Return(Bool(has_error(parse_error)), Unset))
    /\ UNCHANGED <<envelope, erased>>

GetHttpCode ==
    /\ Call("get_http_code", <<>>, Return(Long(get_http_code(response_code)), Unset))
    /\ UNCHANGED <<envelope, erased>>

HttpCodeOk ==
    /\ Call("http_code_ok", <<>>, Return(Bool(http_code_ok(response_code)), Unset))
    /\ UNCHANGED <<envelope, erased>>

FetchStatus ==
    /\ \E o \in fetch_status(document) : Call("fetch_status", <<>>, o)
    /\ UNCHANGED <<envelope, erased>>

FetchDescription ==
    /\ \E o \in fetch_description(document) : Call("fetch_description", <<>>, o)
    /\ UNCHANGED <<envelope, erased>>

Verify ==
    /\ \E error_code \in ErrorCodes :
         \E o \in verify(response_code, parse_error, error_msg, document, error_code) :
            Call("verify", <<error_code>>, o)
    /\ UNCHANGED <<envelope, erased>>

BuildPluginUpdatePackage ==
    /\ \E o \in build_plugin_update_package(document) :
         Call("build_plugin_update_package", <<>>, o)
    /\ UNCHANGED <<envelope, erased>>

FetchInt64 ==
    /\ \E key \in Keys : \E o \in fetch_int64(document, key) : Call("fetch_int64", key, o)
    /\ UNCHANGED <<envelope, erased>>

\* fetch_string that consumes the value it reads
FetchStringConsuming ==
    \E key \in Keys : \E o \in fetch_string(document, key) :
        /\ Call("fetch_string", key, o)
        /\ document' = Erase(document, Pointer(key).tokens, 1).v
        /\ UNCHANGED <<response_code, header_string, response_string, parse_error,
                       error_msg, erased>>

FetchString ==
    /\ \E key \in Keys : \E o \in fetch_string(document, key) : Call("fetch_string", key, o)
    /\ UNCHANGED <<envelope, erased>>

StringifyObject ==
    /\ \E key \in Keys : \E o \in stringify_object(document, key) :
         Call("stringify_object", key, o)
    /\ UNCHANGED <<envelope, erased>>

FetchObjectKeys ==
    /\ \E key \in Keys : \E o \in fetch_object_keys(document, key) :
         Call("fetch_object_keys", key, o)
    /\ UNCHANGED <<envelope, erased>>

FetchStringArray ==
    /\ \E key \in Keys : \E o \in fetch_string_array(document, key) :
         Call("fetch_string_array", key, o)
    /\ UNCHANGED <<envelope, erased>>

BuildHookWhiteMap ==
    /\ \E key \in Keys : \E o \in build_hook_white_map(document, key) :
         Call("build_hook_white_map", key, o)
    /\ UNCHANGED <<envelope, erased>>

\* what erase_value(key) is about to remove: a member (dupmember when the object
\* holds the name twice), an array element, or nothing
Removed(doc, key) ==
    LET p == Pointer(key)
        n == Len(p.tokens)
        parent == IF p.valid /\ n > 0 THEN Get(doc, SubSeq(p.tokens, 1, n - 1), 1)
                  ELSE NotFound
    IN  IF ~parent.found THEN "none"
        ELSE IF IsObject(parent.v)
        THEN LET j == FindMember(parent.v.m, p.tokens[n].name) IN
             IF j = 0 THEN "none"
             ELSE IF FindFrom(parent.v.m, p.tokens[n].name, j + 1) # 0 THEN "dupmember"
             ELSE "member"
        ELSE IF IsArray(parent.v) /\ p.tokens[n].index # -1
                /\ p.tokens[n].index < Len(parent.v.a)
        THEN "element"
        ELSE "none"

EraseValue ==
    \E key \in Keys : \E o \in erase_value(document, key) :
        /\ Call("erase_value", key, [crash |-> o.crash, ret |-> o.ret, out |-> Unset,
                                     errors |-> <<>>])
        /\ document' = o.doc
        /\ erased' = [any |-> TRUE, key |-> key, removed |-> Removed(document, key)]
        /\ UNCHANGED <<response_code, header_string, response_string, parse_error,
                       error_msg>>

Bodies(docs) == {Write(d) : d \in docs}

Init ==
    \/ InitWith({200}, Bodies(CoreDocs \cup EraseDocs))
    \/ InitWith({200, 404}, {<<>>, <<LBrace>>, Write(JObj(<<>>))})

Next ==
    \/ HasError
    \/ GetHttpCode
    \/ HttpCodeOk
    \/ FetchStatus
    \/ FetchDescription
    \/ Verify
    \/ BuildPluginUpdatePackage
    \/ FetchInt64
    \/ FetchString
    \/ StringifyObject
    \/ FetchObjectKeys
    \/ FetchStringArray
    \/ BuildHookWhiteMap
    \/ EraseValue

Spec == Init /\ [][Next]_vars

InitVerify == InitWith(Codes, Bodies(VerifyDocs) \cup Malformed)

NextVerify ==
    \/ HasError
    \/ GetHttpCode
    \/ HttpCodeOk
    \/ FetchStatus
    \/ FetchDescription
    \/ Verify

SpecVerify == InitVerify /\ [][NextVerify]_vars

InitPlugin == InitWith({200}, Bodies(PluginDocs))

NextPlugin == BuildPluginUpdatePackage

SpecPlugin == InitPlugin /\ [][NextPlugin]_vars

InitHook == InitWith({200}, Bodies(HookDocs))

NextHook ==
    \/ FetchObjectKeys
    \/ FetchStringArray
    \/ BuildHookWhiteMap

SpecHook == InitHook /\ [][NextHook]_vars

------------------------------------------------------------------------------
(* The claims *)

\* the node a well-formed pointer addresses in a document
At(doc, key) == Get(doc, Pointer(key).tokens, 1)

Parsed == Parse(response_string).ok
StatusNode == At(document, P_status)
DescriptionNode == At(document, P_description)

\* C1: verify decides in the order parse error, HTTP status outside [200,300),
\* API status: an unparsed body gives false with the parse-failure report whatever
\* the status code, a parsed body with a non-2xx code gives false with the
\* unexpected-HTTP-code report whatever /status is, false comes with exactly one
\* report and true with none, and a parsed 2xx response without /status and
\* /description is accepted.
C1_VerifyPriority ==
    last.op = "verify" =>
        /\ ~Parsed =>
             /\ last.ret = Bool(FALSE)
             /\ errors = <<ParseFailure(last.key[1], error_msg)>>
             /\ error_msg # ""
        /\ (Parsed /\ ~(response_code >= 200 /\ response_code < 300)) =>
             /\ last.ret = Bool(FALSE)
             /\ errors = <<TransportFailure(last.key[1], response_code)>>
        /\ last.ret = Bool(FALSE) => Len(errors) = 1
        /\ last.ret = Bool(TRUE) => Len(errors) = 0
        /\ last.ret \in {Bool(FALSE), Bool(TRUE)}
        /\ (/\ Parsed
            /\ response_code >= 200 /\ response_code < 300
            /\ ~StatusNode.found
            /\ ~DescriptionNode.found) => last.ret = Bool(TRUE)

\* C1 witness: verify refused an unparsed body that came with a 2xx status code
C1_Witness ==
    /\ last.op = "verify"
    /\ ~Parsed
    /\ response_code = 200
    /\ last.ret = Bool(FALSE)
    /\ errors[1].kind = "parse"

\* C2: whenever /status is present and non-zero, verify returns false, whatever
\* the HTTP status and whether or not /description is present, and of any type.
C2_NonZeroStatusRejected ==
    (/\ last.op = "verify"
     /\ StatusNode.found
     /\ IsInt64(StatusNode.v)
     /\ StatusNode.v.n # 0) => last.ret = Bool(FALSE)

IsPackageCall == last.op = "build_plugin_update_package" /\ ~crashed
PluginNode == At(document, P_plugin_plugin)
Md5Node == At(document, P_plugin_md5)
VersionNode == At(document, P_plugin_version)
IsStringNode(node) == node.found /\ IsString(node.v)

\* C3: every package build_plugin_update_package returns has a digest equal to
\* the content digest of its source code, a non-empty version, and as its three
\* fields the strings at /data/plugin/plugin, /data/plugin/version and
\* /data/plugin/md5 of the document.
C3_PackageIsVerified ==
    (IsPackageCall /\ last.ret.t = "package") =>
        /\ last.ret.md5 = md5sum(last.ret.plugin)
        /\ last.ret.version # <<>>
        /\ IsStringNode(PluginNode) /\ last.ret.plugin = PluginNode.v.s
        /\ IsStringNode(VersionNode) /\ last.ret.version = VersionNode.v.s
        /\ IsStringNode(Md5Node) /\ last.ret.md5 = Md5Node.v.s

\* C4: build_plugin_update_package returns a package exactly when the plugin
\* source, the digest and the version are all present as strings and the digest
\* field equals the computed digest of the source; the package then carries the
\* declared version, and in every other case (a field absent or no string, the
\* digests differing with or without a version) the result is no package.
C4_PackageIffIntact ==
    IsPackageCall =>
        LET intact == /\ IsStringNode(PluginNode)
                      /\ IsStringNode(Md5Node)
                      /\ IsStringNode(VersionNode)
                      /\ Md5Node.v.s = md5sum(PluginNode.v.s)
        IN  IF intact
            THEN last.ret = PluginUpdatePackage(PluginNode.v.s, VersionNode.v.s,
                                                Md5Node.v.s)
            ELSE last.ret = Nullptr

\* C4 witness: a package was built from a source whose digest matches
C4_Witness ==
    /\ IsPackageCall
    /\ last.ret.t = "package"
    /\ last.ret.plugin = <<"a">>
    /\ last.ret.version = <<"1">>

IsHookMapCall == last.op = "build_hook_white_map" /\ ~crashed
HookObject == At(document, last.key)
\* the member names of the object the call was given, none when it is no object
HookMemberNames ==
    IF HookObject.found /\ IsObject(HookObject.v)
    THEN {HookObject.v.m[i].name : i \in 1..Len(HookObject.v.m)}
    ELSE {}
\* the array of the (first) member called name, empty when its value is no array
OwnArray(name) ==
    LET v == HookObject.v.m[FindMember(HookObject.v.m, name)].value IN
    IF IsArray(v) THEN v.a ELSE <<>>
AllStrings(a) == \A i \in 1..Len(a) : IsString(a[i])

\* C5: the key set of the map build_hook_white_map returns is the set of member
\* names of the object at the path (empty when the path is no object), a member
\* with an empty array is a key mapped to the empty sequence, and each key maps
\* to the elements of its own array in document order.
C5_WhiteMapIsMembers ==
    IsHookMapCall =>
        /\ DOMAIN last.ret.f = HookMemberNames
        /\ \A name \in HookMemberNames :
             LET own == OwnArray(name)
                 got == last.ret.f[name]
             IN  /\ Len(got) = Len(own)
                 /\ \A i \in 1..Len(own) : IsString(own[i]) => got[i] = own[i].s

\* C6: the child path built for a hook name has every '/' of the name escaped
\* to "~1" and every '~' to "~0", so for every name over an alphabet with '/' and
\* '~' the child path resolves to that member and the map holds its array.
C6_ChildPathResolves ==
    last.op = "build_hook_white_map" =>
        \A name \in HookMemberNames :
            LET parent == Pointer(last.key).tokens
                child == Pointer(ChildPath(last.key, name))
            IN  /\ child.valid
                /\ child.tokens = Append(parent, Token(name))
                /\ (~crashed /\ AllStrings(OwnArray(name))) =>
                      last.ret.f[name] = [i \in 1..Len(OwnArray(name)) |-> OwnArray(name)[i].s]

Accessors == {"fetch_int64", "fetch_string", "stringify_object"}
Expected(op, v) ==
    CASE op = "fetch_int64" -> IsInt64(v)
      [] op = "fetch_string" -> IsString(v)
      [] op = "stringify_object" -> IsObject(v)

\* C7: fetch_int64, fetch_string and stringify_object return true only when a
\* node of the expected type is at the path, and false whenever the path does not
\* resolve or resolves to a node of another type.
C7_AccessorsFailClosed ==
    (last.op \in Accessors /\ ~crashed) =>
        LET node == At(document, last.key) IN
        last.ret = Bool(node.found /\ Expected(last.op, node.v))

Fetchers == {"fetch_int64", "fetch_string"}
IsFetchAfterErase ==
    /\ last.op \in Fetchers
    /\ ~crashed
    /\ erased.any
    /\ last.key = erased.key

\* two calls in a row of the same fetch at the same path give the same result
SameFetchAgain ==
    (/\ last.op \in Fetchers
     /\ last'.op = last.op
     /\ last'.key = last.key
     /\ ~crashed') => last' = last

\* C8 as stated: fetching a path twice with no erase in between gives identical
\* results, and after erase_value(p) a fetch at p yields absent, for every path p,
\* paths to object members and to array elements included.
C8_EraseThenAbsent ==
    /\ [](IsFetchAfterErase => last.ret = Bool(FALSE))
    /\ [][SameFetchAgain]_vars

\* C8 as amended: fetching a path twice with no erase in between gives identical
\* results, and after erase_value(p), with no other erase since, a fetch at p
\* yields absent when p is not the root path and the call removed an object member
\* whose name the object held once, or removed nothing.
C8_EraseMemberThenAbsent ==
    /\ []((/\ IsFetchAfterErase
           /\ erased.key # P_root
           /\ erased.removed \in {"member", "none"}) => last.ret = Bool(FALSE))
    /\ [][SameFetchAgain]_vars

\* C8 witness: a fetch failed at the path of a member that erase_value had just
\* removed
C8_Witness ==
    /\ IsFetchAfterErase
    /\ erased.removed = "member"
    /\ erased.key = P_k
    /\ last.op = "fetch_int64"
    /\ last.ret = Bool(FALSE)

\* C9: the status code, the header text, the body text and the parse-error flag
\* never change after construction, and the parsed document is changed by
\* erase_value only: every other call leaves the whole envelope as it was.
C9_ReadOnlyEnvelope ==
    [][/\ response_code' = response_code
       /\ header_string' = header_string
       /\ response_string' = response_string
       /\ parse_error' = parse_error
       /\ error_msg' = error_msg
       /\ last'.op # "erase_value" => document' = document]_vars

\* C9 witness: a string was fetched from a document that erase_value had changed
C9_Witness ==
    /\ last.op = "fetch_string"
    /\ last.ret = Bool(TRUE)
    /\ erased.any
    /\ erased.removed = "element"
    /\ document # Parse(response_string).v

\* C10: no operation reaches a crash or a fault, on any parsed document and on an
\* envelope whose body did not parse: fetch_string_array and build_hook_white_map
\* return a result also when an array element is no string.
C10_NeverCrashes == ~crashed

=============================================================================
